---- MODULE Spec2Model ----
(***************************************************************************)
(* Model of src/src/util/argument-splitter.ts: the ArgumentSplitter state  *)
(* machine (split, consumeChar, consumeNormalChar, handleExtraBackticks,   *)
(* appendChar, pushArg, newGroup) and the SplitArgumentArray container     *)
(* (restore, shift, slice).                                                *)
(*                                                                         *)
(* A string is a sequence of one-character strings; the empty character    *)
(* '' that split feeds to consumeChar after the last character is "".      *)
(* An optional argument (end?, start?) is <<>> when absent and <<n>> when  *)
(* present.                                                                *)
(***************************************************************************)
EXTENDS Integers, Sequences, FiniteSets, TLC

\* ---------------------------------------------------------------- bounds

\* Longest input of the scanner specification Spec.
MaxLen == 6
\* Longest input of the container specification SpecSeq.
MaxLenSeq == 4
\* Longest input and number of split calls of the reuse specification SpecReuse.
MaxLenReuse == 2
MaxCalls == 2

\* ------------------------------------------------------------ characters

Backslash == "\\"
Quote == "\""
\* The backtick character U+0060, which a TLA+ string literal cannot hold.
Backtick == "BACKTICK"
EndChar == ""
\* The vertical tab character U+000B, which a TLA+ string literal cannot hold.
VerticalTab == "VERTICALTAB"
\* The six characters of the whitespace cases of consumeNormalChar.
Whitespace == {" ", "\f", "\n", "\r", "\t", VerticalTab}
\* One ordinary character and one of each class the scanner distinguishes.
Alphabet == {"a", " ", Backslash, Quote, Backtick}

RECURSIVE Strings(_, _)
\* All strings over A of length at most n.
Strings(A, n) ==
    IF n = 0 THEN {<<>>}
    ELSE LET S == Strings(A, n - 1)
         IN  S \cup {Append(s, c) : s \in {t \in S : Len(t) = n - 1}, c \in A}

RECURSIVE Repeat(_)
\* k backticks: the repeat(k) of one backtick.
Repeat(k) == IF k = 0 THEN <<>> ELSE Append(Repeat(k - 1), Backtick)

\* The documented examples and other long runs of backticks.
TwoTickExample == <<Backtick, Backtick, "a", Backtick, "b", Backtick, Backtick>>
SixTicks == Repeat(6)
EightTicks == Repeat(8)
NineTicksA == Append(Repeat(9), "a")
TripleExample == <<Backtick, Backtick, Backtick, "a", Backtick, Backtick, "b">>
TabExample == <<"a", "\t", "b", "\n">>
VerticalTabExample == <<"a", VerticalTab, "b">>
Examples == {TwoTickExample, SixTicks, EightTicks, NineTicksA, TripleExample, TabExample,
             VerticalTabExample}

Inputs == Strings(Alphabet, MaxLen) \cup Examples
SeqInputs == Strings(Alphabet, MaxLenSeq)
ReuseInputs == Strings(Alphabet, MaxLenReuse)

\* ------------------------------------------------------------ GroupType

New == "New"
None == "None"
DoubleQuote == "DoubleQuote"
CodeBacktick == "CodeBacktick"

\* new SplitArgument(content, type, originalIndex)
SplitArgument(content, type, originalIndex) ==
    [content |-> content, type |-> type, originalIndex |-> originalIndex]

\* The message of the thrown ArgumentSplitterError, NoError while none was thrown.
NoError == "none"
UnknownBackticks == "Parsing a code block, but unknown number of backticks to match."
ImpossibleCondition == "Impossible condition: backticks are recorded but group is in unknown state"
UnfinishedGroup == "Unfinished group"

\* The maximum number of backticks that can be used to form one group.
maxBackticksToFormAGroup == 3

\* The fields of a newly constructed ArgumentSplitter.
FreshSplitter ==
    [escaped |-> FALSE, startOfCurrentGroup |-> 0, group |-> New, next |-> <<>>,
     past |-> 0, present |-> 0, args |-> <<>>, error |-> NoError]

\* ------------------------------------------------- ArgumentSplitter methods

\* A faulty pushArg: the argument is pushed whatever it holds.
pushArgAlways(s) ==
    [s EXCEPT !.args = Append(s.args,
                SplitArgument(s.next, s.group, s.startOfCurrentGroup)),
              !.next = <<>>, !.group = New]

pushArg(s) ==
    LET pushed == IF s.next # <<>> \/ (s.group # None /\ s.group # New)
                  THEN [s EXCEPT !.args = Append(s.args,
                                   SplitArgument(s.next, s.group, s.startOfCurrentGroup)),
                                 !.next = <<>>]
                  ELSE s
    IN  [pushed EXCEPT !.group = New]

newGroup(s, type, i) ==
    [s EXCEPT !.group = type, !.startOfCurrentGroup = i]

\* chars is the appended string: one character, a repeat of backticks, or ''.
appendChar(s, chars, i) ==
    LET g == IF s.group = New /\ chars # <<>> THEN newGroup(s, None, i) ELSE s
    IN  [g EXCEPT !.next = s.next \o chars, !.escaped = FALSE]

\* The string of one character, '' for the end character.
Str(char) == IF char = EndChar THEN <<>> ELSE <<char>>

\* A faulty EndOfInput: the word being accumulated is not pushed.
EndOfInputKeepsWord(s) == s

\* The case '' of consumeNormalChar: the empty character signals the end.
EndOfInput(s) == IF s.group = None THEN pushArg(s) ELSE s

\* The case '\\' of consumeNormalChar: backslashes are used for escaping.
BackslashChar(s, char, i) ==
    LET t == [s EXCEPT !.escaped = ~s.escaped]
    IN  IF ~t.escaped THEN appendChar(t, Str(char), i) ELSE t

\* The case '"' of consumeNormalChar: quotes group an argument together.
QuoteChar(s, char, i) ==
    IF s.group = DoubleQuote
    THEN IF ~s.escaped THEN pushArg(s) ELSE appendChar(s, Str(char), i)
    ELSE IF s.group = New \/ s.group = None
    THEN IF ~s.escaped
         THEN newGroup(pushArg(s), DoubleQuote, i)
         ELSE appendChar(s, Str(char), i)
    ELSE appendChar(s, Str(char), i)

\* A faulty WhitespaceChar: an escaped whitespace is buffered in a word.
WhitespaceEscapable(s, char, i) ==
    IF (s.group = None \/ s.group = New) /\ ~s.escaped
    THEN pushArg(s)
    ELSE appendChar(s, Str(char), i)

\* The whitespace cases of consumeNormalChar: whitespace separates arguments
\* when not in a group.
WhitespaceChar(s, char, i) ==
    IF s.group = None \/ s.group = New
    THEN pushArg(s)
    ELSE appendChar(s, Str(char), i)

consumeNormalChar(s, char, i) ==
    CASE char = Backslash -> BackslashChar(s, char, i)
      [] char = Quote -> QuoteChar(s, char, i)
      [] char \in Whitespace -> WhitespaceChar(s, char, i)
      [] char = EndChar -> EndOfInput(s)
      [] OTHER -> appendChar(s, Str(char), i)

RECURSIVE CompleteGroupsLoop(_, _, _, _)
\* The for loop of handleExtraBackticks, from iteration j:
\* one empty code group is opened and pushed per iteration.
CompleteGroupsLoop(s, j, completeGroups, lookbackIndex) ==
    IF j < completeGroups
    THEN CompleteGroupsLoop(pushArg(newGroup(s, CodeBacktick, lookbackIndex)),
                            j + 1, completeGroups,
                            lookbackIndex + maxBackticksToFormAGroup * 2)
    ELSE s

\* A faulty LookbackAfterLoop: the loop does not advance lookbackIndex.
LookbackNotAdvanced(i, present, completeGroups) == i - present

\* lookbackIndex after the loop.
LookbackAfterLoop(i, present, completeGroups) ==
    (i - present) + completeGroups * (maxBackticksToFormAGroup * 2)

\* A faulty CompleteGroups: every max-group counts as a complete group.
EveryMaxGroupComplete(maxGroups) == maxGroups

\* Each max-pairing makes a complete group.
CompleteGroups(maxGroups) == maxGroups \div 2

\* A faulty PastAfterRun: the width of a new max-group is not recorded.
PastLeftOverOnly(endsWithNewMaxGroup, leftOver) == leftOver

\* A faulty PastAfterRun: the width stays recorded when no group is opened.
PastNeverZero(endsWithNewMaxGroup, leftOver) ==
    IF endsWithNewMaxGroup \/ leftOver = 0 THEN maxBackticksToFormAGroup ELSE leftOver

\* How many backticks start the current group, to match them in the end.
PastAfterRun(endsWithNewMaxGroup, leftOver) ==
    IF endsWithNewMaxGroup THEN maxBackticksToFormAGroup ELSE leftOver

handleExtraBackticks(s, i) ==
    LET maxGroups == s.present \div maxBackticksToFormAGroup
        leftOver == s.present % maxBackticksToFormAGroup
        completeGroups == CompleteGroups(maxGroups)
        endsWithNewMaxGroup == (maxGroups % 2 = 1)
        looped == CompleteGroupsLoop(s, 0, completeGroups, i - s.present)
        lookbackIndex == LookbackAfterLoop(i, s.present, completeGroups)
        counted == [looped EXCEPT
                      !.past = PastAfterRun(endsWithNewMaxGroup, leftOver),
                      !.present = 0]
    IN  IF endsWithNewMaxGroup
        THEN appendChar(newGroup(counted, CodeBacktick, lookbackIndex), Repeat(leftOver), i)
        ELSE IF leftOver # 0
        THEN newGroup(counted, CodeBacktick, lookbackIndex)
        ELSE counted

\* The character that ended a run of backticks, after the run was resolved.
AfterRun(s, char, i) ==
    IF s.group = CodeBacktick
    THEN appendChar(s, Str(char), i)
    ELSE consumeNormalChar(s, char, i)

consumeChar(s, char, i) ==
    IF s.group = DoubleQuote
    THEN consumeNormalChar(s, char, i)
    ELSE IF char = Backtick /\ ~s.escaped
    THEN [s EXCEPT !.present = s.present + 1]
    ELSE IF s.present # 0
    THEN IF s.group = None \/ s.group = New
         THEN AfterRun(handleExtraBackticks(
                           [pushArg(s) EXCEPT !.group = CodeBacktick], i), char, i)
         ELSE IF s.group = CodeBacktick
         THEN IF s.past = 0
              THEN [s EXCEPT !.error = UnknownBackticks]
              ELSE IF s.present < s.past
              THEN appendChar(s, Repeat(s.present), i)
              ELSE AfterRun(handleExtraBackticks(
                                pushArg([s EXCEPT !.present = s.present - s.past]), i),
                            char, i)
         ELSE [s EXCEPT !.error = ImpossibleCondition]
    ELSE consumeNormalChar(s, char, i)

RECURSIVE ScanLoop(_, _, _)
\* The for loop of split from index k; a throw ends it.
ScanLoop(s, str, k) ==
    IF s.error # NoError \/ k >= Len(str) THEN s
    ELSE ScanLoop(consumeChar(s, str[k + 1], k), str, k + 1)

\* split(str) on a splitter whose fields are s: the fields afterwards, with
\* the thrown error if any; on success the returned array holds the args.
split(s, str) ==
    LET l == ScanLoop(s, str, 0)
        t == IF l.error = NoError THEN consumeChar(l, EndChar, Len(str)) ELSE l
    IN  IF t.error = NoError /\ t.group # New
        THEN [t EXCEPT !.error = UnfinishedGroup]
        ELSE t

\* --------------------------------------------- SplitArgumentArray methods

\* An optional index into list, read as list[opt]?.originalIndex:
\* <<>> (undefined) when opt is absent or no element is there.
OriginalIndexAt(list, opt) ==
    IF opt # <<>> /\ opt[1] >= 0 /\ opt[1] < Len(list)
    THEN <<list[opt[1] + 1].originalIndex>>
    ELSE <<>>

Min(a, b) == IF a < b THEN a ELSE b
Max(a, b) == IF a > b THEN a ELSE b
Clamp(n, len) == Min(Max(n, 0), len)

\* A faulty Substring: an undefined start is the end of the string.
SubstringFromEnd(str, optStart, optEnd) ==
    LET a == Clamp(IF optStart = <<>> THEN Len(str) ELSE optStart[1], Len(str))
        b == Clamp(IF optEnd = <<>> THEN Len(str) ELSE optEnd[1], Len(str))
    IN  SubSeq(str, Min(a, b) + 1, Max(a, b))

\* String.prototype.substring(start, end): an undefined start is 0, an undefined
\* end is the length, both are clamped to 0..length and swapped when start > end.
Substring(str, optStart, optEnd) ==
    LET a == Clamp(IF optStart = <<>> THEN 0 ELSE optStart[1], Len(str))
        b == Clamp(IF optEnd = <<>> THEN Len(str) ELSE optEnd[1], Len(str))
    IN  SubSeq(str, Min(a, b) + 1, Max(a, b))

\* restore(start, end?) on an array holding original and list.
restore(original, list, start, optEnd) ==
    Substring(original, OriginalIndexAt(list, <<start>>), OriginalIndexAt(list, optEnd))

\* Array.prototype.slice(start?, end?): a negative index counts from the end.
RelativeIndex(n, len) == IF n < 0 THEN Max(len + n, 0) ELSE Min(n, len)

\* A faulty ArraySlice: the end index is taken as inclusive.
ArraySliceInclusive(list, optStart, optEnd) ==
    LET a == IF optStart = <<>> THEN 0 ELSE RelativeIndex(optStart[1], Len(list))
        b == IF optEnd = <<>> THEN Len(list) ELSE RelativeIndex(optEnd[1], Len(list))
    IN  SubSeq(list, a + 1, Min(b + 1, Len(list)))

ArraySlice(list, optStart, optEnd) ==
    LET a == IF optStart = <<>> THEN 0 ELSE RelativeIndex(optStart[1], Len(list))
        b == IF optEnd = <<>> THEN Len(list) ELSE RelativeIndex(optEnd[1], Len(list))
    IN  SubSeq(list, a + 1, b)

\* The array a SplitArgumentArray holds: split hands its own args array to the
\* array it returns, slice hands over the new array Array.prototype.slice made.
SplitterArray == "args"
SlicedArray == "sliced"
SplitReturnsArray == SplitterArray
SliceReturnsArray == SlicedArray

\* A faulty ArrayShift: the last element is removed instead of the first.
ArrayPop(list) == IF list = <<>> THEN <<>> ELSE SubSeq(list, 1, Len(list) - 1)

\* Array.prototype.shift(): the list without its first element.
ArrayShift(list) == IF list = <<>> THEN <<>> ELSE Tail(list)
\* shift(): the returned content, <<>> (undefined) on an empty list.
ShiftReturn(list) == IF list = <<>> THEN <<>> ELSE <<list[1].content>>

\* ------------------------------------------------------------------ state

VARIABLES
    escaped,              \* ArgumentSplitter.escaped
    startOfCurrentGroup,  \* ArgumentSplitter.startOfCurrentGroup
    group,                \* ArgumentSplitter.group
    next,                 \* ArgumentSplitter.next
    past,                 \* ArgumentSplitter.backticks.past
    present,              \* ArgumentSplitter.backticks.present
    args,                 \* ArgumentSplitter.args, the array split hands out
    content,              \* the argument of the running or last split call
    idx,                  \* the loop index i of split
    pc,                   \* "idle", "scan" (inside split), "returned", "thrown"
    thrown,               \* the error the last split call threw, or NoError
    calls,                \* the number of split calls made on the splitter
    results,              \* the SplitArgumentArray objects split returned
    returnedArgs,         \* history: the arguments of each at its return
    slices,               \* the SplitArgumentArray that slice returned, if any
    sliced,               \* the array Array.prototype.slice made for it
    out                   \* the last call on a SplitArgumentArray and its return

splitterVars == <<escaped, startOfCurrentGroup, group, next, past, present, args>>
callVars == <<content, idx, pc, thrown, calls, results, returnedArgs>>
arrayVars == <<slices, sliced, out>>
vars == <<escaped, startOfCurrentGroup, group, next, past, present, args,
          content, idx, pc, thrown, calls, results, returnedArgs, slices, sliced, out>>

\* The splitter's fields as the record the methods work on.
Cur ==
    [escaped |-> escaped, startOfCurrentGroup |-> startOfCurrentGroup, group |-> group,
     next |-> next, past |-> past, present |-> present, args |-> args, error |-> NoError]

\* The splitter's fields become those of s.
Install(s) ==
    /\ escaped' = s.escaped
    /\ startOfCurrentGroup' = s.startOfCurrentGroup
    /\ group' = s.group
    /\ next' = s.next
    /\ past' = s.past
    /\ present' = s.present
    /\ args' = s.args

\* No call on a SplitArgumentArray was made yet.
NoCall ==
    [op |-> "none", on |-> "none", start |-> <<>>, end |-> <<>>, val |-> <<>>,
     before |-> <<>>, other |-> <<>>]

\* new ArgumentSplitter()
Init ==
    /\ escaped = FreshSplitter.escaped
    /\ startOfCurrentGroup = FreshSplitter.startOfCurrentGroup
    /\ group = FreshSplitter.group
    /\ next = FreshSplitter.next
    /\ past = FreshSplitter.past
    /\ present = FreshSplitter.present
    /\ args = FreshSplitter.args
    /\ content = <<>>
    /\ idx = 0
    /\ pc = "idle"
    /\ thrown = NoError
    /\ calls = 0
    /\ results = <<>>
    /\ returnedArgs = <<>>
    /\ slices = <<>>
    /\ sliced = <<>>
    /\ out = NoCall

\* ---------------------------------------------------------------- actions

\* A call split(c) begins, c drawn from S, on a splitter that ran fewer than
\* limit calls: no field of the splitter is reset.
BeginSplit(S, limit) ==
    /\ pc # "scan"
    /\ calls < limit
    /\ \E c \in S : content' = c
    /\ idx' = 0
    /\ pc' = "scan"
    /\ thrown' = NoError
    /\ calls' = calls + 1
    /\ out' = NoCall
    /\ UNCHANGED <<splitterVars, results, returnedArgs, slices, sliced>>

\* The one split call of a new splitter.
Split == BeginSplit(Inputs, 1)
\* The same, on the shorter inputs of the container specification.
SplitSeq == BeginSplit(SeqInputs, 1)
\* A first or a later split call on the same splitter.
SplitAgain == BeginSplit(ReuseInputs, MaxCalls)

\* One iteration of the loop of split: consumeChar(content.charAt(i), i).
Step ==
    /\ pc = "scan"
    /\ idx < Len(content)
    /\ LET s == consumeChar(Cur, content[idx + 1], idx)
       IN  /\ Install(s)
           /\ IF s.error # NoError
              THEN pc' = "thrown" /\ thrown' = s.error /\ idx' = idx
              ELSE pc' = "scan" /\ thrown' = thrown /\ idx' = idx + 1
    /\ UNCHANGED <<content, calls, results, returnedArgs, arrayVars>>

\* After the loop: the empty character is consumed, then split throws on an
\* unfinished group or returns new SplitArgumentArray(content, this.args).
Finish ==
    /\ pc = "scan"
    /\ idx = Len(content)
    /\ LET s == consumeChar(Cur, EndChar, Len(content))
       IN  /\ Install(s)
           /\ IF s.error # NoError
              THEN /\ pc' = "thrown" /\ thrown' = s.error
                   /\ UNCHANGED <<results, returnedArgs>>
              ELSE IF s.group # New
              THEN /\ pc' = "thrown" /\ thrown' = UnfinishedGroup
                   /\ UNCHANGED <<results, returnedArgs>>
              ELSE /\ pc' = "returned" /\ thrown' = thrown
                   /\ results' = Append(results,
                                   [original |-> content, array |-> SplitReturnsArray])
                   /\ returnedArgs' = Append(returnedArgs, s.args)
    /\ UNCHANGED <<content, idx, calls, arrayVars>>

\* The arguments a SplitArgumentArray holds now.
ArgsOf(ts) == IF ts.array = SplitterArray THEN args ELSE sliced

\* The array named a becomes list; the other array is left alone.
SetArray(a, list) ==
    IF a = SplitterArray
    THEN args' = list /\ sliced' = sliced
    ELSE sliced' = list /\ args' = args

\* The indices a caller passes: in range, the length, and one past it.
Indices(list) == 0..(Len(list) + 1)
OptIndices(list) == {<<>>} \cup {<<n>> : n \in Indices(list)}

\* The arguments of the array slice returned, <<>> while there is none.
OtherArgs(S) == IF S = <<>> THEN <<>> ELSE ArgsOf(S[1])

\* restore(start, end?) on an array split returned, before any slice is made.
Restore ==
    /\ pc # "scan"
    /\ slices = <<>>
    /\ \E r \in 1..Len(results), start \in Indices(args), end \in OptIndices(args) :
         out' = [op |-> "restore", on |-> "result", start |-> <<start>>, end |-> end,
                 val |-> restore(results[r].original, ArgsOf(results[r]), start, end),
                 before |-> ArgsOf(results[r]), other |-> <<r>>]
    /\ UNCHANGED <<splitterVars, callVars, slices, sliced>>

\* shift() on the array split returned.
Shift ==
    /\ pc = "returned"
    /\ LET ts == results[Len(results)]
       IN  /\ out' = [op |-> "shift", on |-> "result", start |-> <<>>, end |-> <<>>,
                      val |-> ShiftReturn(ArgsOf(ts)),
                      before |-> ArgsOf(ts), other |-> OtherArgs(slices)]
           /\ SetArray(ts.array, ArrayShift(ArgsOf(ts)))
    /\ UNCHANGED <<escaped, startOfCurrentGroup, group, next, past, present,
                   callVars, slices>>

\* slice(start?, end?) on the array split returned: one slice is made.
Slice ==
    /\ pc = "returned"
    /\ slices = <<>>
    /\ LET ts == results[Len(results)]
       IN  \E start \in OptIndices(args), end \in OptIndices(args) :
             /\ slices' = <<[original |-> ts.original, array |-> SliceReturnsArray]>>
             /\ SetArray(SliceReturnsArray, ArraySlice(ArgsOf(ts), start, end))
             /\ out' = [op |-> "slice", on |-> "result", start |-> start, end |-> end,
                        val |-> <<>>, before |-> ArgsOf(ts), other |-> <<>>]
    /\ UNCHANGED <<escaped, startOfCurrentGroup, group, next, past, present, callVars>>

\* shift() on the array slice returned.
ShiftSlice ==
    /\ pc = "returned"
    /\ slices # <<>>
    /\ LET ts == slices[1]
       IN  /\ out' = [op |-> "shift", on |-> "slice", start |-> <<>>, end |-> <<>>,
                      val |-> ShiftReturn(ArgsOf(ts)),
                      before |-> ArgsOf(ts), other |-> ArgsOf(results[Len(results)])]
           /\ SetArray(ts.array, ArrayShift(ArgsOf(ts)))
    /\ UNCHANGED <<escaped, startOfCurrentGroup, group, next, past, present,
                   callVars, slices>>

\* ---------------------------------------------------------- specifications

\* The scanner: one split call on a new splitter.
Next == Split \/ Step \/ Finish
Spec == Init /\ [][Next]_vars

\* One split call, then calls on the returned array.
NextSeq == SplitSeq \/ Step \/ Finish \/ Restore \/ Shift \/ Slice \/ ShiftSlice
SpecSeq == Init /\ [][NextSeq]_vars

\* Several split calls on the same splitter, and restore on what they returned.
NextReuse == SplitAgain \/ Step \/ Finish \/ Restore
SpecReuse == Init /\ [][NextReuse]_vars

\* ------------------------------------------------------------------ claims

\* A split call has ended, by a return or by a throw.
Ended == pc \in {"returned", "thrown"}

RECURSIVE StripLeadingWhitespace(_)
\* str without the whitespace it begins with.
StripLeadingWhitespace(str) ==
    IF str # <<>> /\ Head(str) \in Whitespace
    THEN StripLeadingWhitespace(Tail(str))
    ELSE str

\* C1: when split succeeded with at least one argument, restore(0) without an
\* end on the returned array is the input without its leading whitespace:
\* every other character, a backslash before the first argument included, is
\* restored.
C1_RestoreDropsOnlyLeadingWhitespace ==
    (/\ out.op = "restore" /\ out.start = <<0>> /\ out.end = <<>>
     /\ out.before # <<>>
     /\ out.before = returnedArgs[out.other[1]])
    => out.val = StripLeadingWhitespace(results[out.other[1]].original)

\* C2: in a code group opened by 2 or 3 backticks, a shorter run of backticks
\* followed by another character c is appended to the argument, c is then
\* handled (appended when it is an ordinary character) and no backtick stays
\* recorded; the input of two backticks, a, one backtick, b, two backticks is
\* split into the one code argument a, backtick, b.
C2_ShortRunIsLiteral ==
    /\ (content = TwoTickExample /\ Ended)
       => /\ pc = "returned"
          /\ args = <<SplitArgument(<<"a", Backtick, "b">>, CodeBacktick, 0)>>
    /\ (/\ pc = "scan" /\ idx < Len(content)
        /\ group = CodeBacktick /\ past \in {2, 3}
        /\ present > 0 /\ present < past
        /\ content[idx + 1] # Backtick)
       => LET s == consumeChar(Cur, content[idx + 1], idx)
          IN  /\ s.present = 0
              /\ Len(s.next) >= Len(next) + present
              /\ SubSeq(s.next, 1, Len(next) + present) = next \o Repeat(present)
              /\ (content[idx + 1] = "a"
                  => s.next = (next \o Repeat(present)) \o <<"a">>)

\* C3 as claimed: six backticks are split into two empty code arguments.
C3_SixTicksTwoArguments ==
    (content = SixTicks /\ Ended)
    => /\ pc = "returned"
       /\ Len(args) = 2
       /\ \A k \in 1..Len(args) : args[k].type = CodeBacktick /\ args[k].content = <<>>

\* C3, amended: six backticks are split without error into exactly one empty
\* code argument, which starts at index 0 (three backticks open it and three
\* close it).
C3_SixTicksOneArgument ==
    (content = SixTicks /\ Ended)
    => /\ pc = "returned"
       /\ args = <<SplitArgument(<<>>, CodeBacktick, 0)>>

\* The split of six backticks has returned.
C3_Witness == content = SixTicks /\ pc = "returned" /\ Len(args) = 1

\* C4: the one split call of a new splitter throws the unfinished-group error
\* exactly when a quote group or a code group is open after the empty
\* character was consumed, and returns otherwise; a word being accumulated
\* when the input ends is pushed, as the last argument of a successful split
\* when no backticks are pending; an input of whitespace only returns no
\* argument.
C4_ThrowsIffGroupOpen ==
    Ended =>
      LET b == ScanLoop(FreshSplitter, content, 0)
          word == SplitArgument(b.next, None, b.startOfCurrentGroup)
      IN  /\ thrown \in {NoError, UnfinishedGroup}
          /\ (pc = "thrown" /\ thrown = UnfinishedGroup)
               <=> group \in {DoubleQuote, CodeBacktick}
          /\ pc = "returned" <=> group \notin {DoubleQuote, CodeBacktick}
          /\ b.group = None
               => Len(args) > Len(b.args) /\ args[Len(b.args) + 1] = word
          /\ (b.group = None /\ b.present = 0)
               => pc = "returned" /\ args = Append(b.args, word)
          /\ (\A k \in 1..Len(content) : content[k] \in Whitespace)
               => pc = "returned" /\ args = <<>>

\* A split returned whose input ends inside a word, the last argument.
C4_Witness ==
    /\ pc = "returned" /\ content # <<>> /\ content[Len(content)] = "a"
    /\ args # <<>> /\ args[Len(args)].type = None

\* A split threw the unfinished-group error with a code group open.
C4_WitnessThrown ==
    pc = "thrown" /\ thrown = UnfinishedGroup /\ group = CodeBacktick

\* C5: every split call on a splitter ends as the first call of a new splitter
\* on the same input does (the same error, or the same arguments), and the
\* arguments of an array returned earlier are not changed by a later call.
C5_NoLeakAcrossCalls ==
    /\ Ended
       => LET f == split(FreshSplitter, content)
          IN  /\ thrown = f.error
              /\ pc = "returned" => args = f.args
    /\ \A r \in 1..Len(results) : ArgsOf(results[r]) = returnedArgs[r]

\* The start offsets of list are non-decreasing and are indices of a string
\* of length len.
OffsetsOrdered(list, len) ==
    \A k \in 1..Len(list) :
      /\ list[k].originalIndex \in 0..(len - 1)
      /\ k > 1 => list[k - 1].originalIndex <= list[k].originalIndex

\* C6: while split scans and in every array split returned, the start offsets
\* of the arguments are non-decreasing in list order and lie within the input.
C6_StartOffsetsOrdered ==
    /\ (pc = "scan" /\ idx > 0) => OffsetsOrdered(args, Len(content))
    /\ \A r \in 1..Len(results) :
         OffsetsOrdered(ArgsOf(results[r]), Len(results[r].original))

\* The characters of str from index lo up to but excluding index hi.
CharsBetween(str, lo, hi) == SubSeq(str, lo + 1, Min(hi, Len(str)))

\* C7: restore(i, j) with i <= j and argument i in the list returns the
\* original string from the start offset of argument i up to but excluding
\* that of argument j, or up to the end when j is absent or not in the list,
\* and leaves the list as it was.
C7_RestoreIsExactRange ==
    (/\ out.op = "restore"
     /\ out.start[1] < Len(out.before)
     /\ (out.end = <<>> \/ out.end[1] >= out.start[1]))
    => LET ts == results[out.other[1]]
           from == out.before[out.start[1] + 1].originalIndex
           to == IF out.end # <<>> /\ out.end[1] < Len(out.before)
                 THEN out.before[out.end[1] + 1].originalIndex
                 ELSE Len(ts.original)
       IN  /\ out.val = CharsBetween(ts.original, from, to)
           /\ ArgsOf(ts) = out.before

\* C8: slice(a, b) with 0 <= a <= b returns a new array over the same original
\* string that holds arguments a..min(b, n)-1 in order; the receiver keeps its
\* arguments, and a later shift on one of the two does not change the other.
C8_SliceIsCopy ==
    /\ (/\ out.op = "slice" /\ out.start # <<>> /\ out.end # <<>>
        /\ out.start[1] <= out.end[1])
       => LET n == Len(out.before)
              a == Min(out.start[1], n)
              b == Min(out.end[1], n)
          IN  /\ slices # <<>>
              /\ ArgsOf(slices[1]) = SubSeq(out.before, a + 1, b)
              /\ Len(ArgsOf(slices[1])) = Max(0, b - a)
              /\ slices[1].original = results[Len(results)].original
              /\ results[Len(results)].original = content
              /\ ArgsOf(results[Len(results)]) = out.before
    /\ (out.op = "shift" /\ slices # <<>>)
       => /\ out.on = "slice" => ArgsOf(results[Len(results)]) = out.other
          /\ out.on = "result" => ArgsOf(slices[1]) = out.other

\* A non-empty slice of a non-empty array was shifted.
C8_Witness ==
    /\ out.op = "shift" /\ out.on = "slice"
    /\ out.before # <<>> /\ out.other # <<>>
    /\ Len(out.before) < Len(out.other)

\* C9: shift on a non-empty array returns the content of its first argument
\* and removes exactly that argument; on an empty array it returns undefined
\* and leaves it empty; the original string stays the input.
C9_ShiftRemovesFirst ==
    out.op = "shift"
    => LET ts == IF out.on = "slice" THEN slices[1] ELSE results[Len(results)]
       IN  /\ out.before # <<>>
                => /\ out.val = <<out.before[1].content>>
                   /\ ArgsOf(ts) = Tail(out.before)
                   /\ Len(ArgsOf(ts)) = Len(out.before) - 1
           /\ out.before = <<>> => out.val = <<>> /\ ArgsOf(ts) = <<>>
           /\ ts.original = content

\* An array of two or more arguments was shifted.
C9_Witness == out.op = "shift" /\ Len(out.before) >= 2

\* An empty array was shifted.
C9_WitnessEmpty == out.op = "shift" /\ out.before = <<>>

\* C10: the one split call of a new splitter throws no error but the
\* unfinished-group error: whenever backticks are recorded the group is New,
\* None or CodeBacktick, and a code group has a known number of backticks to
\* match.
C10_NoInternalError ==
    /\ thrown \in {NoError, UnfinishedGroup}
    /\ present # 0
       => /\ group \in {New, None, CodeBacktick}
          /\ group = CodeBacktick => past # 0

\* A run of backticks inside a code group is about to end.
C10_Witness ==
    /\ pc = "scan" /\ group = CodeBacktick /\ present # 0
    /\ (idx = Len(content) \/ content[idx + 1] # Backtick)

\* ---------------------------------------------------------------------
\* One character of a first call, seen from the state it leaves behind.
\* ---------------------------------------------------------------------
\* A character of the input was consumed by the last step.
Stepped == pc = "scan" /\ idx > 0 /\ calls = 1

\* The splitter as it was before the character at idx - 1 was consumed.
Prev == ScanLoop(FreshSplitter, SubSeq(content, 1, idx - 1), 0)

\* The character consumed by the last step.
LastChar == content[idx]

\* The arguments pushed so far, followed by the pending word of s if any.
WithPendingWord(s) ==
    IF s.next # <<>>
    THEN Append(s.args, SplitArgument(s.next, None, s.startOfCurrentGroup))
    ELSE s.args

\* C11: every argument pushed is a word (None), a quoted group or a code
\* group, never New; a word is never empty, so an empty argument is a
\* quoted or a code group. Two double quotes give one empty quoted argument
\* and words separated by whitespace give no argument for the whitespace.
C11_PushedArgumentsAreTyped ==
    /\ \A k \in 1..Len(args) :
         /\ args[k].type \in {None, DoubleQuote, CodeBacktick}
         /\ (args[k].type = None => args[k].content # <<>>)
         /\ (args[k].content = <<>> => args[k].type \in {DoubleQuote, CodeBacktick})
    /\ (Ended /\ calls = 1 /\ content = <<Quote, Quote>>
          => args = <<SplitArgument(<<>>, DoubleQuote, 0)>>)
    /\ (Ended /\ calls = 1 /\ content = <<"a", " ", " ", "a">>
          => args = <<SplitArgument(<<"a">>, None, 0), SplitArgument(<<"a">>, None, 3)>>)

\* Two double quotes were split into one empty quoted argument.
C11_Witness ==
    /\ pc = "returned" /\ content = <<Quote, Quote>>
    /\ args = <<SplitArgument(<<>>, DoubleQuote, 0)>>

\* A vertical tab between two words separated them and was not buffered.
C11_WitnessVerticalTab ==
    /\ pc = "returned" /\ content = VerticalTabExample
    /\ args = <<SplitArgument(<<"a">>, None, 0), SplitArgument(<<"b">>, None, 2)>>

\* Whitespace between and after two words was consumed: two words, no more.
C11_WitnessWhitespace ==
    /\ pc = "returned" /\ content = <<"a", " ", "a", " ">>
    /\ Len(args) = 2

\* The character at position k (from 1) of str is a backslash that is not
\* itself escaped by the backslash before it.
RECURSIVE UnescapedBackslashAt(_, _)
UnescapedBackslashAt(str, k) ==
    /\ k >= 1
    /\ str[k] = Backslash
    /\ ~UnescapedBackslashAt(str, k - 1)

\* The character consumed by the last step comes right after an unescaped
\* backslash.
LastCharEscaped == UnescapedBackslashAt(content, idx - 1)

\* C12: a double quote right after an unescaped backslash neither opens nor
\* closes a quoted group: met in New, None or DoubleQuote it is appended as
\* a literal quote and the backslash is not buffered. An unescaped quote
\* classified in New or None pushes the pending word, if any, and opens a
\* DoubleQuote group that starts at the index of the quote; an unescaped
\* quote met in DoubleQuote closes the group.
C12_QuoteHonoursEscape ==
    (Stepped /\ LastChar = Quote) =>
        /\ (LastCharEscaped /\ Prev.group \in {New, None, DoubleQuote} =>
              /\ next = Append(Prev.next, Quote)
              /\ args = Prev.args
              /\ group = (IF Prev.group = New THEN None ELSE Prev.group)
              /\ startOfCurrentGroup =
                   (IF Prev.group = New THEN idx - 1 ELSE Prev.startOfCurrentGroup)
              /\ ~escaped)
        /\ (~LastCharEscaped /\ Prev.group \in {New, None} /\ Prev.present = 0 =>
              /\ args = WithPendingWord(Prev)
              /\ group = DoubleQuote
              /\ startOfCurrentGroup = idx - 1
              /\ next = <<>>)
        /\ (~LastCharEscaped /\ Prev.group = DoubleQuote =>
              /\ args = Append(Prev.args,
                          SplitArgument(Prev.next, DoubleQuote, Prev.startOfCurrentGroup))
              /\ group = New
              /\ next = <<>>)

\* The original string of the array the last restore was called on.
Restored == results[out.other[1]].original

\* C13: restore returns a string for every start and end. When start is out
\* of range (at or past the length of the list, which may be empty or
\* emptied by shifts) and end is absent, it returns the whole original
\* string; when start is out of range and end is in range it returns the
\* original string from index 0 up to the start offset of the argument at
\* end.
C13_RestoreOutOfRange ==
    (out.op = "restore" /\ out.on = "result") =>
        /\ out.val \in Seq(Alphabet)
        /\ (out.start # <<>> /\ out.start[1] >= Len(out.before) =>
              /\ (out.end = <<>> => out.val = Restored)
              /\ (out.end # <<>> /\ out.end[1] < Len(out.before) =>
                    out.val = CharsBetween(Restored, 0,
                                out.before[out.end[1] + 1].originalIndex)))

\* restore with start out of range and no end, on a list emptied by shifts,
\* returned the whole original string.
C13_Witness ==
    /\ out.op = "restore" /\ out.on = "result"
    /\ out.before = <<>> /\ Len(returnedArgs) = 1 /\ returnedArgs[1] # <<>>
    /\ out.start # <<>> /\ out.end = <<>>
    /\ out.val = Restored /\ Restored # <<>>

\* restore with start out of range and end in range returned a proper,
\* non-empty prefix of the original string.
C13_WitnessEnd ==
    /\ out.op = "restore" /\ out.on = "result"
    /\ out.start # <<>> /\ out.start[1] >= Len(out.before)
    /\ out.end # <<>> /\ out.end[1] < Len(out.before)
    /\ out.val # <<>> /\ out.val # Restored

\* ---------------------------------------------------------------------
\* One call of consumeChar of a first call, the empty character that ends
\* the input included, seen from the state it leaves behind.
\* ---------------------------------------------------------------------
\* consumeChar was called by the last step.
Consumed == calls = 1 /\ (Stepped \/ Ended)

\* The splitter as it was before that call.
Before == IF Ended THEN ScanLoop(FreshSplitter, content, 0) ELSE Prev

\* The character and the index that call was given.
Char == IF Ended THEN EndChar ELSE LastChar
CharIndex == IF Ended THEN Len(content) ELSE idx - 1

\* n empty code arguments, the j-th (from 0) at offset p + 6 * j.
RECURSIVE EmptyCodeArguments(_, _)
EmptyCodeArguments(p, n) ==
    IF n = 0
    THEN <<>>
    ELSE Append(EmptyCodeArguments(p, n - 1),
                SplitArgument(<<>>, CodeBacktick, p + 6 * (n - 1)))

\* C14: when a run ends and r >= 1 of its backticks are not used to close a
\* group (the whole run when it starts in New or None, the run less the
\* width of the group just after a code group closes), with p the index of
\* the first of these r, exactly (r \div 3) \div 2 empty code arguments are
\* pushed, the j-th at offset p + 6 * j; then, if r \div 3 is odd, a code
\* group of width 3 is opened at p + 6 * ((r \div 3) \div 2) and the r % 3
\* backticks left are the first characters of its content; otherwise, if
\* r % 3 > 0, a code group of width r % 3 is opened there with no content;
\* otherwise no group is open. Eight backticks give one empty code argument
\* and an open group of width 2.
C14_ExtraBackticksResolved ==
    LET b == Before
        opening == b.group \in {New, None}
        r == IF opening THEN b.present ELSE b.present - b.past
        p == CharIndex - r
        maxGroups == r \div 3
        leftOver == r % 3
        completeGroups == maxGroups \div 2
        q == p + 6 * completeGroups
        pushed == (IF opening
                   THEN WithPendingWord(b)
                   ELSE Append(b.args,
                          SplitArgument(b.next, CodeBacktick, b.startOfCurrentGroup)))
                  \o EmptyCodeArguments(p, completeGroups)
    IN  /\ (Consumed /\ Char # Backtick /\ b.group # DoubleQuote /\ r >= 1
              /\ (opening \/ b.past >= 1) =>
              /\ args = pushed
              /\ IF maxGroups % 2 = 1
                 THEN /\ group = CodeBacktick /\ past = 3
                      /\ startOfCurrentGroup = q
                      /\ next = Repeat(leftOver) \o Str(Char)
                 ELSE IF leftOver > 0
                 THEN /\ group = CodeBacktick /\ past = leftOver
                      /\ startOfCurrentGroup = q
                      /\ next = Str(Char)
                 ELSE /\ group # CodeBacktick /\ past = 0
                      /\ (Char = EndChar => group = New /\ next = <<>>))
        /\ (Ended /\ calls = 1 /\ content = EightTicks =>
              /\ args = <<SplitArgument(<<>>, CodeBacktick, 0)>>
              /\ group = CodeBacktick /\ past = 2 /\ startOfCurrentGroup = 6)

\* A run of eight backticks was resolved.
C14_Witness ==
    /\ Ended /\ content = EightTicks
    /\ args = <<SplitArgument(<<>>, CodeBacktick, 0)>>
    /\ group = CodeBacktick /\ past = 2

\* Three backticks left after a code group closed opened a group of width 3.
C14_WitnessAfterClose ==
    /\ Consumed /\ Char # Backtick
    /\ Before.group = CodeBacktick /\ Before.present - Before.past = 3
    /\ group = CodeBacktick /\ past = 3
    /\ Len(args) = Len(Before.args) + 1

\* A run pushed an empty code argument and left no group open.
C14_WitnessUnset ==
    /\ Consumed /\ Char # Backtick
    /\ Before.group = New /\ Before.present = 6
    /\ group # CodeBacktick /\ Len(args) = Len(Before.args) + 1

\* C15: the escape flag is set for one character only: when a backslash has
\* set it, the next character consumed, whatever it is and whatever the
\* group (whitespace met in New or None included), leaves it false.
C15_EscapeLastsOneCharacter ==
    (Stepped /\ idx >= 2 /\ content[idx - 1] = Backslash /\ Prev.escaped)
        => ~escaped

\* C16: the character that ends a run of backticks is, once the run is
\* resolved, treated as any other character met in the resulting state: a
\* backslash right after the backticks that open a code group sets the
\* escape flag and is not buffered, as a backslash met later in that group.
C16_RunEndIsClassified ==
    (Stepped /\ LastChar = Backslash
       /\ Prev.group \in {New, None} /\ Prev.present > 0
       /\ group = CodeBacktick)
        => /\ escaped
           /\ (next = <<>> \/ next[Len(next)] # Backslash)

\* C17: after every character, the width to match (past) is 1, 2 or 3
\* exactly when the group is CodeBacktick and is 0 when the group is New,
\* None or DoubleQuote; the count of pending backticks (present) is 0 when
\* the group is DoubleQuote.
C17_WidthOnlyInCodeGroup ==
    /\ (group = CodeBacktick <=> past \in 1..maxBackticksToFormAGroup)
    /\ (group \in {New, None, DoubleQuote} => past = 0)
    /\ (group = DoubleQuote => present = 0)

\* A code group was closed and a quoted group holding a backtick is open.
C17_Witness ==
    /\ Stepped /\ LastChar = Backtick
    /\ group = DoubleQuote /\ past = 0 /\ present = 0
    /\ \E k \in 1..Len(args) : args[k].type = CodeBacktick

\* A code group of width 2 is open.
C17_WitnessCode ==
    /\ Stepped /\ group = CodeBacktick /\ past = 2 /\ next # <<>>

\* The input without its last character.
Front(str) == SubSeq(str, 1, Len(str) - 1)

\* C18: an input whose last character is an unescaped backslash met in New
\* or None is split without error, and the arguments are those of the same
\* input without that backslash: the backslash adds no character and no
\* argument.
C18_TrailingBackslashIgnored ==
    (Ended /\ calls = 1 /\ content # <<>>
       /\ UnescapedBackslashAt(content, Len(content))
       /\ LET b == ScanLoop(FreshSplitter, Front(content), 0)
          IN  b.group \in {New, None} /\ b.present = 0)
        => /\ pc = "returned"
           /\ split(FreshSplitter, Front(content)).error = NoError
           /\ args = split(FreshSplitter, Front(content)).args

\* C19: the two kinds of group never interrupt each other. While a
\* DoubleQuote group is open every backtick is appended to its content,
\* leaves the count of pending backticks as it was and opens no code group;
\* while a code group is open every double quote, escaped or not, is
\* appended to its content and neither opens a DoubleQuote group nor closes
\* the code group.
C19_GroupsDoNotInterrupt ==
    /\ (Stepped /\ LastChar = Backtick /\ Prev.group = DoubleQuote =>
          /\ group = DoubleQuote
          /\ next = Append(Prev.next, Backtick)
          /\ present = Prev.present
          /\ args = Prev.args)
    /\ (Stepped /\ LastChar = Quote /\ Prev.group = CodeBacktick
          /\ Prev.present < Prev.past =>
          /\ group = CodeBacktick
          /\ args = Prev.args
          /\ Len(next) > Len(Prev.next)
          /\ next[Len(next)] = Quote)

\* No character of str is whitespace.
NoWhitespace(str) == \A k \in 1..Len(str) : str[k] \notin Whitespace

\* C20: the content of a None argument never holds whitespace: whitespace
\* met in New or None ends the current word and is never buffered, even
\* right after an unescaped backslash; whitespace is buffered only in a
\* DoubleQuote or a code group.
C20_NoWhitespaceInWord ==
    /\ \A k \in 1..Len(args) : args[k].type = None => NoWhitespace(args[k].content)
    /\ (group \in {New, None} => NoWhitespace(next))
    /\ (Stepped /\ LastChar \in Whitespace
          /\ Prev.group \in {New, None} /\ Prev.present = 0 =>
          /\ args = WithPendingWord(Prev)
          /\ group = New
          /\ next = <<>>)
    /\ (Stepped /\ LastChar \in Whitespace /\ Len(next) > Len(Prev.next) =>
          group \in {DoubleQuote, CodeBacktick})

\* Whitespace right after an unescaped backslash ended a word.
C20_Witness ==
    /\ Stepped /\ LastChar \in Whitespace /\ LastCharEscaped
    /\ Prev.group = None /\ Prev.next # <<>> /\ Prev.escaped
    /\ group = New /\ Len(args) = Len(Prev.args) + 1

\* Whitespace was buffered in a quoted group.
C20_WitnessQuoted ==
    /\ Stepped /\ LastChar \in Whitespace
    /\ group = DoubleQuote /\ next = Append(Prev.next, LastChar)

====
